---- MODULE Spec2Model ----
\* Home-Todo-Planner: the task status calculator (services/task.service.ts),
\* the date helpers (utils/date.ts), the completion audit trail
\* (services/history.service.ts) and the routes that call them (index.ts).
\*
\* Time is counted in slots: SlotsPerDay slots make one calendar day.  A
\* JavaScript Date is a record [valid, t]: t is the instant in slots since the
\* epoch (UTC), valid is FALSE for an Invalid Date (NaN).  The process's local
\* time zone is tz slots ahead of UTC, so the local wall clock of instant t
\* reads t + tz.  A nullable column or optional field is <<>> (NULL/undefined)
\* or <<v>>.
EXTENDS Integers, Sequences, FiniteSets, TLC

VARIABLES tz, now, tasks, completions, nextTaskId, nextCompletionId, lastOp,
          calcTask, calcToday, calcResult,
          categories, members, nextCategoryId, nextMemberId, fk, pc,
          users, nextUserId, sessions, nextSessionId, regs

storeVars == <<tasks, completions, nextTaskId, nextCompletionId>>
calcVars == <<calcTask, calcToday, calcResult>>
\* the categories and household_members tables, whether the connection
\* enforces foreign keys, and the request a handler is in the middle of
refVars == <<categories, members, nextCategoryId, nextMemberId>>
\* the users and sessions tables and the register requests that await
\* their password hash
authVars == <<users, nextUserId, sessions, nextSessionId, regs>>
extVars == <<categories, members, nextCategoryId, nextMemberId, fk, pc,
             users, nextUserId, sessions, nextSessionId, regs>>
vars == <<tz, now, tasks, completions, nextTaskId, nextCompletionId, lastOp,
          calcTask, calcToday, calcResult,
          categories, members, nextCategoryId, nextMemberId, fk, pc,
          users, nextUserId, sessions, nextSessionId, regs>>

----------------------------------------------------------------------------
\* Bounds of the model

SlotsPerDay == 2
MinDay == 1
MaxDay == 4
MaxInterval == 2
MaxTasks == 2
MaxCompletions == 3
MaxCategories == 1
MaxMembers == 1
\* the tasks and completions of the runs that also hold categories and members
TenantTasks == 1
TenantCompletions == 1
MaxSessions == 2
\* SESSION_DURATION_MS (seven days) on the scale of the model's clock
SessionDuration == 2
\* the last instant the clock of the session runs reaches
MaxNow == 7
\* LIMIT 100 of the history query, scaled to the completions a run records
HistoryLimit == 2
\* the last instant of the year 9999: toISOString writes every later instant
\* with an expanded year, "+010000-01-01T00:00:00.000Z"
EndOfYear9999 == 12
\* registration requests that may wait for hashPassword at one time
MaxPending == 2

\* the process runs west or east of UTC
TZOffsets == {-1, 1}
Users == {1, 2}

----------------------------------------------------------------------------
\* Nullable values

Null == <<>>
Some(v) == <<v>>
IsNull(x) == x = <<>>

----------------------------------------------------------------------------
\* Date strings and JavaScript Dates
\*
\* A date string is [kind, v]:
\*   "utc"      "2024-03-15T10:30:00.000Z"  v = the instant
\*   "local"    "2024-03-15T10:30:00"       v = the local wall-clock reading
\*   "dateonly" "2024-03-15"                v = the day number (parsed as UTC)
\*   "invalid"  "garbage"                   v = 0
\*   "empty"    ""                          v = 0

Utc(t) == [kind |-> "utc", v |-> t]
LocalStr(w) == [kind |-> "local", v |-> w]
DateOnly(d) == [kind |-> "dateonly", v |-> d]
InvalidStr == [kind |-> "invalid", v |-> 0]
EmptyStr == [kind |-> "empty", v |-> 0]

MkDate(t) == [valid |-> TRUE, t |-> t]
InvalidDate == [valid |-> FALSE, t |-> 0]

\* new Date(string)
NewDate(s) ==
  CASE s.kind = "utc" -> MkDate(s.v)
    [] s.kind = "local" -> MkDate(s.v - tz)
    [] s.kind = "dateonly" -> MkDate(s.v * SlotsPerDay)
    [] OTHER -> InvalidDate

\* Date.prototype.toISOString (throws RangeError on an Invalid Date; the
\* callers below test d.valid first)
toISOString(d) == Utc(d.t)

\* JavaScript truthiness of an optional string: undefined, null and "" are falsy
TruthyStr(x) == ~IsNull(x) /\ x[1].kind # "empty"

\* getFullYear/getMonth/getDate: the local calendar day of a Date
LocalDay(d) == (d.t + tz) \div SlotsPerDay

\* new Date(year, month, day): local midnight of a calendar day
LocalMidnight(day) == MkDate(day * SlotsPerDay - tz)

\* relational comparison of Dates (any comparison with NaN is false)
DateGT(a, b) == a.valid /\ b.valid /\ a.t > b.t
DateGE(a, b) == a.valid /\ b.valid /\ a.t >= b.t
SameTime(a, b) == a.valid /\ b.valid /\ a.t = b.t

normalizeToDay_noop(date) == date

normalizeToDay(date) ==
  IF date.valid THEN LocalMidnight(LocalDay(date)) ELSE InvalidDate

getToday == normalizeToDay(MkDate(now))

SetDatePlus_setsDayOfMonth(date, days) ==
  IF date.valid
  THEN MkDate(date.t - ((date.t + tz) \div SlotsPerDay) * SlotsPerDay
                + days * SlotsPerDay)
  ELSE InvalidDate

\* date.setDate(date.getDate() + days): calendar-day arithmetic that keeps the
\* local time of day
SetDatePlus(date, days) ==
  IF date.valid THEN MkDate(date.t + days * SlotsPerDay) ELSE InvalidDate

----------------------------------------------------------------------------
\* calculateTaskStatus

IntervalOf(task) ==
  IF IsNull(task.interval_days) THEN 0 ELSE task.interval_days[1]

NoDueDateBranch_overdue(today) ==
  [status |-> "overdue", nextDue |-> today]

\* non-recurring, no due date
NoDueDateBranch(today) ==
  [status |-> "pending", nextDue |-> today]

DueDateBranch_strict(task, today) ==
  LET dueDateDay == normalizeToDay(NewDate(task.due_date[1]))
  IN IF DateGT(dueDateDay, today)
     THEN [status |-> "pending", nextDue |-> dueDateDay]
     ELSE [status |-> "overdue", nextDue |-> dueDateDay]

\* non-recurring with a due date
DueDateBranch(task, today) ==
  LET dueDateDay == normalizeToDay(NewDate(task.due_date[1]))
  IN IF DateGE(dueDateDay, today)
     THEN [status |-> "pending", nextDue |-> dueDateDay]
     ELSE [status |-> "overdue", nextDue |-> dueDateDay]

NeverCompletedBranch_pending(today) ==
  [status |-> "pending", nextDue |-> today]

\* recurring, never completed
NeverCompletedBranch(today) ==
  [status |-> "overdue", nextDue |-> today]

CompletedBranch_swapped(task, today) ==
  LET lastCompleted == NewDate(task.last_completed_at[1])
      nextDue == SetDatePlus(lastCompleted, IntervalOf(task))
      nextDueDay == normalizeToDay(nextDue)
  IN IF DateGT(nextDueDay, today)
     THEN [status |-> "done", nextDue |-> nextDue]
     ELSE IF SameTime(nextDueDay, today)
          THEN [status |-> "overdue", nextDue |-> nextDue]
          ELSE [status |-> "pending", nextDue |-> nextDue]

\* recurring with a last completion
CompletedBranch(task, today) ==
  LET lastCompleted == NewDate(task.last_completed_at[1])
      nextDue == SetDatePlus(lastCompleted, IntervalOf(task))
      nextDueDay == normalizeToDay(nextDue)
  IN IF DateGT(nextDueDay, today)
     THEN [status |-> "done", nextDue |-> nextDue]
     ELSE IF SameTime(nextDueDay, today)
          THEN [status |-> "pending", nextDue |-> nextDue]
          ELSE [status |-> "overdue", nextDue |-> nextDue]

calculateTaskStatus(task, today) ==
  IF task.is_recurring = 0
  THEN IF ~TruthyStr(task.due_date)
       THEN NoDueDateBranch(today)
       ELSE DueDateBranch(task, today)
  ELSE IF ~TruthyStr(task.last_completed_at)
       THEN NeverCompletedBranch(today)
       ELSE CompletedBranch(task, today)

----------------------------------------------------------------------------
\* The store: tasks and task_completions (db.ts), and the requests' inputs

Instants == (MinDay * SlotsPerDay) .. ((MaxDay + 1) * SlotsPerDay - 1)
Days == MinDay .. MaxDay
TaskIds == 1 .. MaxTasks

\* the instants a request may supply as completed_at: a back-dated one, in the
\* two formats the parser tells apart, and an unparseable one
SuppliedCompletedAt ==
  {Null, Some(InvalidStr),
   Some(Utc(MinDay * SlotsPerDay + 1)), Some(LocalStr((MinDay + 1) * SlotsPerDay))}

\* the bodies POST /api/tasks may carry
TaskSubmissions ==
  {[name |-> "", is_recurring |-> Some(TRUE), interval_days |-> Some(1),
    due_date |-> Null, category_id |-> Null, assigned_member_id |-> Null],
   [name |-> "chore", is_recurring |-> Some(TRUE), interval_days |-> Some(0),
    due_date |-> Null, category_id |-> Null, assigned_member_id |-> Null],
   [name |-> "chore", is_recurring |-> Some(TRUE), interval_days |-> Some(1),
    due_date |-> Some(DateOnly(MinDay + 1)), category_id |-> Null,
    assigned_member_id |-> Null],
   [name |-> "chore", is_recurring |-> Some(FALSE), interval_days |-> Some(1),
    due_date |-> Null, category_id |-> Null, assigned_member_id |-> Null]}

\* the last request served: its operation, the task and completion record it
\* acted on, the completed_at it carried and the response; user, id and data
\* are the caller, the :id of the URL and the body, where a property needs
\* them; rows is what a read returned
NoOp == [op |-> "init", task |-> 0, entry |-> 0, at |-> Null, result |-> "ok",
         user |-> 0, id |-> 0, data |-> Null, error |-> "", rows |-> {},
         cookie |-> Null, list |-> <<>>]

\* the empty store; nothing in the code sets PRAGMA foreign_keys, so whether
\* the REFERENCES clauses act is left to the SQLite build
EmptyStore ==
  /\ tasks = <<>>
  /\ completions = <<>>
  /\ nextTaskId = 1
  /\ nextCompletionId = 1
  /\ categories = <<>>
  /\ members = <<>>
  /\ nextCategoryId = 1
  /\ nextMemberId = 1
  /\ fk \in BOOLEAN
  /\ pc = Null
  /\ users = <<>>
  /\ nextUserId = 1
  /\ sessions = <<>>
  /\ nextSessionId = 1
  /\ regs = <<>>

Init ==
  /\ tz \in TZOffsets
  /\ now = (MinDay + 1) * SlotsPerDay
  /\ EmptyStore
  /\ lastOp = NoOp
  /\ calcTask = Null
  /\ calcToday = Null
  /\ calcResult = Null

\* the clock advances
Tick ==
  /\ now < (MinDay + 2) * SlotsPerDay - 1
  /\ now' = now + 1
  /\ lastOp' = [NoOp EXCEPT !.op = "tick"]
  /\ UNCHANGED <<tz, storeVars, calcVars, extVars>>

----------------------------------------------------------------------------
\* task.service.ts

validateTaskData_nameOnly(data) ==
  IF data.name = "" THEN "Name is required" ELSE "valid"

\* the error of the validation, or "valid"; a missing name and an empty one
\* are both the falsy ""
validateTaskData(data) ==
  IF data.name = "" THEN "Name is required"
  ELSE IF data.is_recurring = Some(TRUE)
          /\ (IsNull(data.interval_days) \/ data.interval_days = Some(0))
       THEN "Interval is required for recurring tasks"
       ELSE "valid"

\* the row createTask inserts
NewTaskRow(userId, data) ==
  LET isRecurring == IF IsNull(data.is_recurring) THEN TRUE
                     ELSE data.is_recurring[1]
  IN [user_id |-> userId,
      name |-> data.name,
      interval_days |-> IF isRecurring THEN data.interval_days ELSE Null,
      is_recurring |-> IF isRecurring THEN 1 ELSE 0,
      due_date |-> IF isRecurring THEN Null ELSE data.due_date,
      category_id |-> data.category_id,
      assigned_member_id |-> data.assigned_member_id,
      last_completed_at |-> Null]

createTask(userId, data) ==
  /\ tasks' = tasks @@ (nextTaskId :> NewTaskRow(userId, data))
  /\ nextTaskId' = nextTaskId + 1

getTaskById(taskId, userId) ==
  IF taskId \in DOMAIN tasks /\ tasks[taskId].user_id = userId
  THEN Some(taskId) ELSE Null

updateTask_resetsCache(taskId, userId, data) ==
  /\ tasks' = [i \in DOMAIN tasks |->
                 IF i = taskId /\ tasks[i].user_id = userId
                 THEN NewTaskRow(userId, data)
                 ELSE tasks[i]]
  /\ UNCHANGED nextTaskId

\* UPDATE tasks SET ... WHERE id = ? AND user_id = ?: every column of the
\* submission is written again, last_completed_at is not among them
updateTask(taskId, userId, data) ==
  /\ tasks' = [i \in DOMAIN tasks |->
                 IF i = taskId /\ tasks[i].user_id = userId
                 THEN [NewTaskRow(userId, data) EXCEPT
                         !.last_completed_at = tasks[i].last_completed_at]
                 ELSE tasks[i]]
  /\ UNCHANGED nextTaskId

\* an INSERT or UPDATE that stores a reference to a missing category or member
\* fails with a constraint error where foreign keys are enforced
FkRejects(categoryId, memberId) ==
  /\ fk
  /\ \/ ~IsNull(categoryId) /\ categoryId[1] \notin DOMAIN categories
     \/ ~IsNull(memberId) /\ memberId[1] \notin DOMAIN members

\* DELETE FROM tasks WHERE id = ? AND user_id = ?; where foreign keys are
\* enforced the task's completions go with it (ON DELETE CASCADE)
deleteTask(taskId, userId) ==
  IF IsNull(getTaskById(taskId, userId))
  THEN UNCHANGED <<tasks, completions>>
  ELSE /\ tasks' = [i \in DOMAIN tasks \ {taskId} |-> tasks[i]]
       /\ completions' =
            IF fk
            THEN [c \in {c \in DOMAIN completions :
                          completions[c].task_id # taskId} |-> completions[c]]
            ELSE completions

ActiveFilter_all(t) == TRUE

\* AND (t.is_recurring = 1 OR t.last_completed_at IS NULL)
ActiveFilter(t) == t.is_recurring = 1 \/ IsNull(t.last_completed_at)

\* the ids of the rows the SELECT of getTasksForUser yields from the table ts
ActiveIds(ts, userId) ==
  {i \in DOMAIN ts : ts[i].user_id = userId /\ ActiveFilter(ts[i])}

\* LEFT JOIN categories c ON t.category_id = c.id
JoinedCategory(t) ==
  IF ~IsNull(t.category_id) /\ t.category_id[1] \in DOMAIN categories
  THEN Some(categories[t.category_id[1]]) ELSE Null

\* LEFT JOIN household_members m ON t.assigned_member_id = m.id
JoinedMember(memberId) ==
  IF ~IsNull(memberId) /\ memberId[1] \in DOMAIN members
  THEN Some(members[memberId[1]]) ELSE Null

\* one element of the array getTasksForUser returns
TaskWithStatus(i, today) ==
  [id |-> i,
   task |-> tasks[i],
   category_name |-> IF IsNull(JoinedCategory(tasks[i])) THEN Null
                     ELSE Some(JoinedCategory(tasks[i])[1].name),
   category_color |-> IF IsNull(JoinedCategory(tasks[i])) THEN Null
                      ELSE Some(JoinedCategory(tasks[i])[1].color),
   assigned_member_name |->
     IF IsNull(JoinedMember(tasks[i].assigned_member_id)) THEN Null
     ELSE Some(JoinedMember(tasks[i].assigned_member_id)[1].name),
   status |-> calculateTaskStatus(tasks[i], today).status,
   next_due |-> toISOString(calculateTaskStatus(tasks[i], today).nextDue)]

\* nextDue.toISOString() throws RangeError for some selected row
getTasksForUserThrows(userId) ==
  \E i \in ActiveIds(tasks, userId) :
    ~calculateTaskStatus(tasks[i], getToday).nextDue.valid

\* the rows getTasksForUser returns when it does not throw (ORDER BY t.name
\* is left out: the rows are kept as a set)
getTasksForUser(userId) ==
  {TaskWithStatus(i, getToday) : i \in ActiveIds(tasks, userId)}

\* Math.ceil((a - b) / (1000 * 60 * 60 * 24)) of two valid dates
CeilDays(a, b) == -((b.t - a.t) \div SlotsPerDay)

\* the frontend's getStatusForDay(task, daysFromToday) on one listed task: the
\* browser runs in the server's timezone and at the server's time. With an
\* Invalid Date the difference is NaN and no comparison succeeds.
getStatusForDay(task, daysFromToday) ==
  LET targetDate == SetDatePlus(normalizeToDay(MkDate(now)), daysFromToday)
      nextDue == normalizeToDay(NewDate(task.next_due))
  IN IF ~(nextDue.valid /\ targetDate.valid) THEN "overdue"
     ELSE IF CeilDays(nextDue, targetDate) > 0 THEN "done"
     ELSE IF CeilDays(nextDue, targetDate) = 0 THEN "pending"
     ELSE "overdue"

SetLastCompleted_skipped(taskId, value) == tasks

\* UPDATE tasks SET last_completed_at = ? WHERE id = ?
SetLastCompleted(taskId, value) ==
  [i \in DOMAIN tasks |->
     IF i = taskId THEN [tasks[i] EXCEPT !.last_completed_at = value]
     ELSE tasks[i]]

completionDate_now(data) == toISOString(MkDate(now))

\* the timestamp completeTask records
completionDate(data) ==
  IF TruthyStr(data.completed_at)
  THEN toISOString(NewDate(data.completed_at[1]))
  ELSE toISOString(MkDate(now))

completeTask(taskId, data) ==
  /\ completions' = completions @@
       (nextCompletionId :> [task_id |-> taskId,
                             completed_at |-> completionDate(data),
                             completed_by_member_id |-> data.completed_by_member_id])
  /\ nextCompletionId' = nextCompletionId + 1
  /\ tasks' = SetLastCompleted(taskId, Some(completionDate(data)))

----------------------------------------------------------------------------
\* history.service.ts

getHistoryEntry(entryId, userId) ==
  IF /\ entryId \in DOMAIN completions
     /\ completions[entryId].task_id \in DOMAIN tasks
     /\ tasks[completions[entryId].task_id].user_id = userId
  THEN Some(completions[entryId].task_id) ELSE Null

DeleteCompletion_skipped(entryId) == completions

\* DELETE FROM task_completions WHERE id = ?
DeleteCompletion(entryId) ==
  [c \in DOMAIN completions \ {entryId} |-> completions[c]]

previousCompletion_oldest(taskId, comps) ==
  LET mine == {c \in DOMAIN comps : comps[c].task_id = taskId}
  IN IF mine = {} THEN Null
     ELSE LET first == CHOOSE c \in mine :
                         \A d \in mine : comps[c].completed_at.v <= comps[d].completed_at.v
          IN Some(comps[first].completed_at)

\* SELECT completed_at FROM task_completions WHERE task_id = ?
\* ORDER BY completed_at DESC LIMIT 1
\* (completed_at is the text toISOString wrote; for four-digit years its text
\* order is the order of the instants)
previousCompletion(taskId, comps) ==
  LET mine == {c \in DOMAIN comps : comps[c].task_id = taskId}
  IN IF mine = {} THEN Null
     ELSE LET first == CHOOSE c \in mine :
                         \A d \in mine : comps[c].completed_at.v >= comps[d].completed_at.v
          IN Some(comps[first].completed_at)

deleteHistoryEntry(entryId, taskId) ==
  /\ completions' = DeleteCompletion(entryId)
  /\ tasks' = SetLastCompleted(taskId,
                 previousCompletion(taskId, DeleteCompletion(entryId)))
  /\ UNCHANGED <<nextTaskId, nextCompletionId>>

clearHistoryForUser_keepsCache(userId) ==
  /\ completions' =
       [c \in {c \in DOMAIN completions :
                 ~(/\ completions[c].task_id \in DOMAIN tasks
                   /\ tasks[completions[c].task_id].user_id = userId)}
          |-> completions[c]]
  /\ UNCHANGED <<tasks, nextTaskId, nextCompletionId>>

clearHistoryForUser(userId) ==
  /\ completions' =
       [c \in {c \in DOMAIN completions :
                 ~(/\ completions[c].task_id \in DOMAIN tasks
                   /\ tasks[completions[c].task_id].user_id = userId)}
          |-> completions[c]]
  /\ tasks' = [i \in DOMAIN tasks |->
                 IF tasks[i].user_id = userId
                 THEN [tasks[i] EXCEPT !.last_completed_at = Null]
                 ELSE tasks[i]]
  /\ UNCHANGED <<nextTaskId, nextCompletionId>>

\* one row of the history query
HistoryRow(c) ==
  [id |-> c,
   task_id |-> completions[c].task_id,
   task_name |-> tasks[completions[c].task_id].name,
   is_recurring |-> tasks[completions[c].task_id].is_recurring,
   completed_by_member_id |-> completions[c].completed_by_member_id,
   completed_by_name |->
     IF IsNull(JoinedMember(completions[c].completed_by_member_id)) THEN Null
     ELSE Some(JoinedMember(completions[c].completed_by_member_id)[1].name),
   completed_at |-> completions[c].completed_at]

\* FROM task_completions tc JOIN tasks t ON tc.task_id = t.id
\* WHERE t.user_id = ?
HistoryIds(userId) ==
  {c \in DOMAIN completions :
     /\ completions[c].task_id \in DOMAIN tasks
     /\ tasks[completions[c].task_id].user_id = userId}

\* the rows getHistoryForUser selects, as a set (the order and the LIMIT are
\* in getHistoryForUserOrdered)
getHistoryForUser(userId) ==
  {HistoryRow(c) : c \in HistoryIds(userId)}

\* completed_at is a TEXT column holding what toISOString wrote, and ORDER BY
\* compares it byte by byte: an expanded year begins with "+", which sorts
\* below every digit; two texts of the same form compare as their instants
TextGE(a, b) ==
  IF (a.v > EndOfYear9999) = (b.v > EndOfYear9999) THEN a.v >= b.v
  ELSE b.v > EndOfYear9999

\* ORDER BY tc.completed_at DESC: every arrangement of the selected rows in
\* which no row precedes one with a greater completed_at (rows with equal
\* completed_at come in an order the query does not fix)
OrderedDesc(ids) ==
  {h \in [1 .. Cardinality(ids) -> ids] :
     /\ \A i, j \in DOMAIN h : i # j => h[i] # h[j]
     /\ \A i, j \in DOMAIN h :
          i < j => TextGE(completions[h[i]].completed_at,
                          completions[h[j]].completed_at)}

\* LIMIT 100
LimitOf(h) == IF Len(h) < HistoryLimit THEN Len(h) ELSE HistoryLimit

\* the arrays getHistoryForUser may return
getHistoryForUserOrdered(userId) ==
  {[i \in 1 .. LimitOf(h) |-> HistoryRow(h[i])] :
     h \in OrderedDesc(HistoryIds(userId))}

----------------------------------------------------------------------------
\* category.service.ts

DefaultColor == "#6b7280"

getCategoriesForUser(userId) ==
  {[id |-> c, name |-> categories[c].name, color |-> categories[c].color] :
     c \in {c \in DOMAIN categories : categories[c].user_id = userId}}

\* color || "#6b7280"
ColorOrDefault(color) ==
  IF IsNull(color) \/ color[1] = "" THEN DefaultColor ELSE color[1]

createCategory(userId, name, color) ==
  /\ categories' = categories @@
       (nextCategoryId :> [user_id |-> userId, name |-> name,
                           color |-> ColorOrDefault(color)])
  /\ nextCategoryId' = nextCategoryId + 1

updateCategory(categoryId, userId, name, color) ==
  /\ categories' = [c \in DOMAIN categories |->
                      IF c = categoryId /\ categories[c].user_id = userId
                      THEN [categories[c] EXCEPT !.name = name,
                                                 !.color = ColorOrDefault(color)]
                      ELSE categories[c]]
  /\ UNCHANGED nextCategoryId

\* DELETE FROM categories WHERE id = ? AND user_id = ?; where foreign keys
\* are enforced the tasks that referred to it get category_id NULL
\* (ON DELETE SET NULL)
deleteCategory(categoryId, userId) ==
  IF categoryId \in DOMAIN categories /\ categories[categoryId].user_id = userId
  THEN /\ categories' = [c \in DOMAIN categories \ {categoryId} |-> categories[c]]
       /\ tasks' = IF fk
                   THEN [i \in DOMAIN tasks |->
                           IF tasks[i].category_id = Some(categoryId)
                           THEN [tasks[i] EXCEPT !.category_id = Null]
                           ELSE tasks[i]]
                   ELSE tasks
  ELSE UNCHANGED <<categories, tasks>>

----------------------------------------------------------------------------
\* member.service.ts

getMembersForUser(userId) ==
  {[id |-> m, name |-> members[m].name] :
     m \in {m \in DOMAIN members : members[m].user_id = userId}}

createMember(userId, name) ==
  /\ members' = members @@ (nextMemberId :> [user_id |-> userId, name |-> name])
  /\ nextMemberId' = nextMemberId + 1

updateMember(memberId, userId, name) ==
  /\ members' = [m \in DOMAIN members |->
                   IF m = memberId /\ members[m].user_id = userId
                   THEN [members[m] EXCEPT !.name = name]
                   ELSE members[m]]
  /\ UNCHANGED nextMemberId

\* DELETE FROM household_members WHERE id = ? AND user_id = ?; where foreign
\* keys are enforced the tasks and completions that referred to it get NULL
deleteMember(memberId, userId) ==
  IF memberId \in DOMAIN members /\ members[memberId].user_id = userId
  THEN /\ members' = [m \in DOMAIN members \ {memberId} |-> members[m]]
       /\ tasks' = IF fk
                   THEN [i \in DOMAIN tasks |->
                           IF tasks[i].assigned_member_id = Some(memberId)
                           THEN [tasks[i] EXCEPT !.assigned_member_id = Null]
                           ELSE tasks[i]]
                   ELSE tasks
       /\ completions' =
            IF fk
            THEN [c \in DOMAIN completions |->
                    IF completions[c].completed_by_member_id = Some(memberId)
                    THEN [completions[c] EXCEPT !.completed_by_member_id = Null]
                    ELSE completions[c]]
            ELSE completions
  ELSE UNCHANGED <<members, tasks, completions>>

----------------------------------------------------------------------------
\* auth.service.ts.  A username or password is the sequence of its
\* characters.

UpperCase == {"A", "B"}
UsernameChars == {"a", "b", "n", "o", "0", "_"} \cup UpperCase

LowerOf(ch) == CASE ch = "A" -> "a" [] ch = "B" -> "b" [] OTHER -> ch

\* String.prototype.toLowerCase
toLowerCase(str) == [i \in 1 .. Len(str) |-> LowerOf(str[i])]

UsernameError ==
  "Username must be 3-20 characters, letters, numbers and underscores only"

\* /^[a-zA-Z0-9_]+$/ and the length limits
validateUsername(username) ==
  IF Len(username) < 3 \/ Len(username) > 20 THEN UsernameError
  ELSE IF \E i \in 1 .. Len(username) : username[i] \notin UsernameChars
       THEN UsernameError
       ELSE "valid"

validatePassword(password) ==
  IF Len(password) < 6 THEN "Password must be at least 6 characters"
  ELSE "valid"

\* Bun.password.hash / verify: the hash stands for the password it was made
\* of (the salt is left out)
hashPassword(password) == <<"argon2id", password>>
verifyPassword(password, hash) == hash = hashPassword(password)

getUserByUsername(username) ==
  IF \E u \in DOMAIN users : users[u].username = toLowerCase(username)
  THEN Some(CHOOSE u \in DOMAIN users : users[u].username = toLowerCase(username))
  ELSE Null

usernameExists(username) ==
  \E u \in DOMAIN users : users[u].username = toLowerCase(username)

\* username TEXT NOT NULL UNIQUE: the INSERT of createUser fails when a row
\* has the same stored username
createUserFails(username) ==
  \E u \in DOMAIN users : users[u].username = toLowerCase(username)

createUser(username, passwordHash) ==
  /\ users' = users @@
       (nextUserId :> [username |-> toLowerCase(username),
                       password_hash |-> passwordHash])
  /\ nextUserId' = nextUserId + 1

getUserIdFromSessionId_noExpiry(sessionId) ==
  IF sessionId \in DOMAIN sessions
  THEN Some(sessions[sessionId].user_id) ELSE Null

getUserIdFromSessionId(sessionId) ==
  IF /\ sessionId \in DOMAIN sessions
     /\ ~(NewDate(sessions[sessionId].expires_at).t < now)
  THEN Some(sessions[sessionId].user_id) ELSE Null

\* generateSessionId draws 32 random bytes: the id is one no session had
\* before
createSession(userId) ==
  /\ sessions' = sessions @@
       (nextSessionId :> [user_id |-> userId,
                          expires_at |-> toISOString(MkDate(now + SessionDuration))])
  /\ nextSessionId' = nextSessionId + 1

deleteSession(sessionId) ==
  sessions' = [x \in DOMAIN sessions \ {sessionId} |-> sessions[x]]

----------------------------------------------------------------------------
\* index.ts: the routes

\* POST /api/tasks, the body drawn from subs, while fewer than cap tasks
\* were ever created
PostTaskFrom(subs, cap) ==
  \E u \in Users, data \in subs :
    /\ nextTaskId <= cap
    /\ IF validateTaskData(data) # "valid"
       THEN /\ UNCHANGED storeVars
            /\ lastOp' = [NoOp EXCEPT !.op = "createTask", !.result = "400",
                                      !.error = validateTaskData(data),
                                      !.user = u, !.data = Some(data)]
       ELSE IF FkRejects(data.category_id, data.assigned_member_id)
       THEN /\ UNCHANGED storeVars
            /\ lastOp' = [NoOp EXCEPT !.op = "createTask", !.result = "500",
                                      !.user = u, !.data = Some(data)]
       ELSE /\ createTask(u, data)
            /\ UNCHANGED <<completions, nextCompletionId>>
            /\ lastOp' = [NoOp EXCEPT !.op = "createTask", !.task = nextTaskId,
                                      !.user = u, !.data = Some(data)]
    /\ UNCHANGED <<tz, now, calcVars, extVars>>

\* PUT /api/tasks/:id, the body drawn from subs; the route answers success
\* whether or not the UPDATE matched a row
PutTaskFrom(subs) ==
  \E u \in Users, id \in TaskIds, data \in subs :
    /\ IF validateTaskData(data) # "valid"
       THEN /\ UNCHANGED storeVars
            /\ lastOp' = [NoOp EXCEPT !.op = "updateTask", !.result = "400",
                                      !.error = validateTaskData(data),
                                      !.user = u, !.id = id,
                                      !.data = Some(data)]
       ELSE IF /\ ~IsNull(getTaskById(id, u))
               /\ FkRejects(data.category_id, data.assigned_member_id)
       THEN /\ UNCHANGED storeVars
            /\ lastOp' = [NoOp EXCEPT !.op = "updateTask", !.result = "500",
                                      !.user = u, !.id = id,
                                      !.data = Some(data)]
       ELSE /\ updateTask(id, u, data)
            /\ UNCHANGED <<completions, nextCompletionId>>
            /\ lastOp' = [NoOp EXCEPT !.op = "updateTask", !.task = id,
                                      !.user = u, !.id = id,
                                      !.data = Some(data)]
    /\ UNCHANGED <<tz, now, calcVars, extVars>>

PostTask == PostTaskFrom(TaskSubmissions, MaxTasks)

\* POST /api/tasks/:id/complete, completed_at drawn from ats and
\* completed_by_member_id from bys, while fewer than cap completions were
\* ever recorded
PostCompleteFrom(ats, bys, cap) ==
  \E u \in Users, id \in TaskIds, at \in ats, by \in bys :
    LET data == [completed_at |-> at, completed_by_member_id |-> by]
        op == [NoOp EXCEPT !.op = "completeTask", !.user = u, !.id = id]
    IN /\ nextCompletionId <= cap
       /\ IF IsNull(getTaskById(id, u))
          THEN /\ UNCHANGED storeVars
               /\ lastOp' = [op EXCEPT !.result = "404"]
          ELSE IF \/ TruthyStr(at) /\ ~NewDate(at[1]).valid
                  \/ FkRejects(Null, by)
               THEN \* toISOString throws RangeError, or the INSERT fails
                    /\ UNCHANGED storeVars
                    /\ lastOp' = [op EXCEPT !.result = "500"]
               ELSE /\ completeTask(id, data)
                    /\ UNCHANGED nextTaskId
                    /\ lastOp' = [op EXCEPT !.task = id, !.at = at,
                                            !.entry = nextCompletionId]
       /\ UNCHANGED <<tz, now, calcVars, extVars>>

PostComplete == PostCompleteFrom(SuppliedCompletedAt, {Null}, MaxCompletions)

\* DELETE /api/history/:id
DeleteHistory ==
  \E u \in Users, id \in 1 .. MaxCompletions :
    LET entry == getHistoryEntry(id, u)
        op == [NoOp EXCEPT !.op = "deleteHistoryEntry", !.user = u, !.id = id]
    IN /\ IF IsNull(entry)
          THEN /\ UNCHANGED storeVars
               /\ lastOp' = [op EXCEPT !.result = "404"]
          ELSE /\ deleteHistoryEntry(id, entry[1])
               /\ lastOp' = [op EXCEPT !.task = entry[1], !.entry = id]
       /\ UNCHANGED <<tz, now, calcVars, extVars>>

\* DELETE /api/history
ClearHistory ==
  \E u \in Users :
    /\ clearHistoryForUser(u)
    /\ lastOp' = [NoOp EXCEPT !.op = "clearHistoryForUser", !.user = u]
    /\ UNCHANGED <<tz, now, calcVars, extVars>>

\* GET /api/tasks
GetTasks ==
  \E u \in Users :
    /\ lastOp' = IF getTasksForUserThrows(u)
                 THEN [NoOp EXCEPT !.op = "getTasksForUser", !.user = u,
                                   !.result = "500"]
                 ELSE [NoOp EXCEPT !.op = "getTasksForUser", !.user = u,
                                   !.rows = getTasksForUser(u)]
    /\ UNCHANGED <<storeVars, tz, now, calcVars, extVars>>

Next == PostTask \/ PostComplete \/ DeleteHistory \/ ClearHistory \/ Tick

Spec == Init /\ [][Next]_vars

----------------------------------------------------------------------------
\* The validated create and update routes on every shape of submission

SubmittedIntervals == {Null} \cup {Some(n) : n \in -1 .. 1}

SubmitSubmissions ==
  [name : {"", "chore"},
   is_recurring : {Null, Some(TRUE), Some(FALSE)},
   interval_days : SubmittedIntervals,
   due_date : {Null, Some(DateOnly(MinDay + 1))},
   category_id : {Null},
   assigned_member_id : {Null}]

SubmitPostTask == PostTaskFrom(SubmitSubmissions, MaxTasks)

SubmitPutTask == PutTaskFrom(SubmitSubmissions)

SubmitNext == SubmitPostTask \/ SubmitPutTask

SpecSubmit == Init /\ [][SubmitNext]_vars

----------------------------------------------------------------------------
\* The task listing among the operations that change what it selects

\* a recurring chore, a one-time task without a due date and one whose
\* due_date is text that new Date cannot parse (validateTaskData does not
\* look at due_date); the first and the last carry the field that their
\* recurrence flag deselects as well
ListSubmissions ==
  {[name |-> "chore", is_recurring |-> Some(TRUE), interval_days |-> Some(1),
    due_date |-> Some(DateOnly(MinDay + 1)), category_id |-> Null,
    assigned_member_id |-> Null],
   [name |-> "chore", is_recurring |-> Some(FALSE), interval_days |-> Null,
    due_date |-> Null, category_id |-> Null, assigned_member_id |-> Null],
   [name |-> "chore", is_recurring |-> Some(FALSE), interval_days |-> Some(1),
    due_date |-> Some(InvalidStr), category_id |-> Null,
    assigned_member_id |-> Null]}

ListPostTask == PostTaskFrom(ListSubmissions, MaxTasks)

ListPutTask == PutTaskFrom(ListSubmissions)

ListPostComplete == PostCompleteFrom({Null}, {Null}, MaxCompletions)

ListNext ==
  \/ ListPostTask \/ ListPutTask \/ ListPostComplete
  \/ DeleteHistory \/ ClearHistory \/ GetTasks

SpecList == Init /\ [][ListNext]_vars

----------------------------------------------------------------------------
\* Two owners, their categories and members, and the routes of every entity

CategoryIds == 1 .. MaxCategories
MemberIds == 1 .. MaxMembers

\* a chore that may name a category and a member by id
TenantSubmissions ==
  [name : {"chore"}, is_recurring : {Some(TRUE)}, interval_days : {Some(1)},
   due_date : {Null},
   category_id : {Null} \cup {Some(c) : c \in CategoryIds},
   assigned_member_id : {Null} \cup {Some(m) : m \in MemberIds}]

\* the bodies of the category routes and the names of the member routes
CategoryBodies ==
  {[name |-> "kitchen", color |-> Null],
   [name |-> "garden", color |-> Some("#16a34a")]}
MemberNames == {"ann", "bob"}

TenantPostTask == PostTaskFrom(TenantSubmissions, TenantTasks)

TenantPutTask == PutTaskFrom(TenantSubmissions)

TenantPostComplete ==
  PostCompleteFrom({Null}, {Null} \cup {Some(m) : m \in MemberIds},
                   TenantCompletions)

\* DELETE /api/tasks/:id
DeleteTaskRoute ==
  \E u \in Users, id \in TaskIds :
    /\ deleteTask(id, u)
    /\ lastOp' = [NoOp EXCEPT !.op = "deleteTask", !.user = u, !.id = id]
    /\ UNCHANGED <<nextTaskId, nextCompletionId, refVars, fk, pc>>
    /\ UNCHANGED <<tz, now, calcVars, authVars>>

\* GET /api/history
GetHistory ==
  \E u \in Users :
    /\ lastOp' = [NoOp EXCEPT !.op = "getHistoryForUser", !.user = u,
                              !.rows = getHistoryForUser(u)]
    /\ UNCHANGED <<storeVars, tz, now, calcVars, extVars>>

\* GET /api/categories
GetCategories ==
  \E u \in Users :
    /\ lastOp' = [NoOp EXCEPT !.op = "getCategoriesForUser", !.user = u,
                              !.rows = getCategoriesForUser(u)]
    /\ UNCHANGED <<storeVars, tz, now, calcVars, extVars>>

\* POST /api/categories
PostCategoryFrom(bodies) ==
  \E u \in Users, body \in bodies :
    /\ nextCategoryId <= MaxCategories
    /\ createCategory(u, body.name, body.color)
    /\ lastOp' = [NoOp EXCEPT !.op = "createCategory", !.user = u,
                              !.entry = nextCategoryId]
    /\ UNCHANGED <<storeVars, members, nextMemberId, fk, pc>>
    /\ UNCHANGED <<tz, now, calcVars, authVars>>

\* PUT /api/categories/:id
PutCategoryFrom(bodies) ==
  \E u \in Users, id \in CategoryIds, body \in bodies :
    /\ updateCategory(id, u, body.name, body.color)
    /\ lastOp' = [NoOp EXCEPT !.op = "updateCategory", !.user = u, !.id = id]
    /\ UNCHANGED <<storeVars, members, nextMemberId, fk, pc>>
    /\ UNCHANGED <<tz, now, calcVars, authVars>>

\* DELETE /api/categories/:id
DeleteCategoryRoute ==
  \E u \in Users, id \in CategoryIds :
    /\ deleteCategory(id, u)
    /\ lastOp' = [NoOp EXCEPT !.op = "deleteCategory", !.user = u, !.id = id]
    /\ UNCHANGED <<completions, nextTaskId, nextCompletionId>>
    /\ UNCHANGED <<nextCategoryId, members, nextMemberId, fk, pc>>
    /\ UNCHANGED <<tz, now, calcVars, authVars>>

\* GET /api/members
GetMembers ==
  \E u \in Users :
    /\ lastOp' = [NoOp EXCEPT !.op = "getMembersForUser", !.user = u,
                              !.rows = getMembersForUser(u)]
    /\ UNCHANGED <<storeVars, tz, now, calcVars, extVars>>

\* POST /api/members
PostMemberFrom(names) ==
  \E u \in Users, name \in names :
    /\ nextMemberId <= MaxMembers
    /\ createMember(u, name)
    /\ lastOp' = [NoOp EXCEPT !.op = "createMember", !.user = u,
                              !.entry = nextMemberId]
    /\ UNCHANGED <<storeVars, categories, nextCategoryId, fk, pc>>
    /\ UNCHANGED <<tz, now, calcVars, authVars>>

\* PUT /api/members/:id
PutMemberFrom(names) ==
  \E u \in Users, id \in MemberIds, name \in names :
    /\ updateMember(id, u, name)
    /\ lastOp' = [NoOp EXCEPT !.op = "updateMember", !.user = u, !.id = id]
    /\ UNCHANGED <<storeVars, categories, nextCategoryId, fk, pc>>
    /\ UNCHANGED <<tz, now, calcVars, authVars>>

\* DELETE /api/members/:id
DeleteMemberRoute ==
  \E u \in Users, id \in MemberIds :
    /\ deleteMember(id, u)
    /\ lastOp' = [NoOp EXCEPT !.op = "deleteMember", !.user = u, !.id = id]
    /\ UNCHANGED <<nextTaskId, nextCompletionId>>
    /\ UNCHANGED <<nextMemberId, categories, nextCategoryId, fk, pc>>
    /\ UNCHANGED <<tz, now, calcVars, authVars>>

PostCategory == PostCategoryFrom(CategoryBodies)
PutCategory == PutCategoryFrom(CategoryBodies)
PostMember == PostMemberFrom(MemberNames)
PutMember == PutMemberFrom(MemberNames)

TenantNext ==
  \/ TenantPostTask \/ TenantPutTask \/ DeleteTaskRoute \/ GetTasks
  \/ TenantPostComplete \/ DeleteHistory \/ ClearHistory \/ GetHistory
  \/ PostCategory \/ PutCategory \/ DeleteCategoryRoute \/ GetCategories
  \/ PostMember \/ PutMember \/ DeleteMemberRoute \/ GetMembers

SpecTenant == Init /\ [][TenantNext]_vars

----------------------------------------------------------------------------
\* The history listing over completions dated by the caller

\* completed_at as a request may carry it: absent, an instant of the current
\* days, or an instant past the year 9999
HistoryCompletedAt ==
  {Null, Some(Utc(MinDay * SlotsPerDay + 1)), Some(Utc(EndOfYear9999 + 1))}

HistorySubmissions ==
  {[name |-> "chore", is_recurring |-> Some(TRUE), interval_days |-> Some(1),
    due_date |-> Null, category_id |-> Null, assigned_member_id |-> Null]}

HistoryPostTask == PostTaskFrom(HistorySubmissions, MaxTasks)

HistoryPostComplete ==
  PostCompleteFrom(HistoryCompletedAt, {Null}, MaxCompletions)

\* GET /api/history
GetHistoryOrdered ==
  \E u \in Users :
    \E h \in getHistoryForUserOrdered(u) :
      /\ lastOp' = [NoOp EXCEPT !.op = "getHistoryForUser", !.user = u,
                                !.list = h]
      /\ UNCHANGED <<storeVars, tz, now, calcVars, extVars>>

HistoryNext ==
  HistoryPostTask \/ HistoryPostComplete \/ GetHistoryOrdered \/ Tick

SpecHistory == Init /\ [][HistoryNext]_vars

----------------------------------------------------------------------------
\* Registration, login, logout and the session cookie

ALLOW_SIGNUPS == TRUE

\* the session_id cookie a request may carry: none, or any id
Cookies == {Null} \cup {Some(x) : x \in 1 .. MaxSessions}

\* a lookup that takes the cookie's value for the user id without consulting
\* the sessions table
getUserIdFromSession_trustsCookie(cookie) ==
  IF IsNull(cookie) THEN Null ELSE Some(cookie[1])

\* getUserIdFromSession(c)
getUserIdFromSession(cookie) ==
  IF IsNull(cookie) THEN Null ELSE getUserIdFromSessionId(cookie[1])

Ann == <<"A", "n", "n">>
SubmittedUsernames == {Ann, <<"a", "n", "n">>, <<"b", "o", "b">>, <<"a", "b">>}
Secret == <<"s", "e", "c", "r", "e", "t">>
SubmittedPasswords == {Secret, <<"s", "e", "c", "r", "e", "T">>, <<"a", "b", "c">>}

\* POST /api/register, run from its first line to its last with no other
\* request in between
RegisterFrom(names, passwords, cap) ==
  \E username \in names, password \in passwords :
    LET op == [NoOp EXCEPT !.op = "register",
                           !.data = Some([username |-> username,
                                          password |-> password])]
    IN /\ nextUserId <= cap
       /\ nextSessionId <= MaxSessions
       /\ IF ~ALLOW_SIGNUPS
          THEN /\ lastOp' = [op EXCEPT !.result = "403"]
               /\ UNCHANGED <<users, nextUserId, sessions, nextSessionId>>
          ELSE IF validateUsername(username) # "valid"
          THEN /\ lastOp' = [op EXCEPT !.result = "400",
                                       !.error = validateUsername(username)]
               /\ UNCHANGED <<users, nextUserId, sessions, nextSessionId>>
          ELSE IF validatePassword(password) # "valid"
          THEN /\ lastOp' = [op EXCEPT !.result = "400",
                                       !.error = validatePassword(password)]
               /\ UNCHANGED <<users, nextUserId, sessions, nextSessionId>>
          ELSE IF usernameExists(username)
          THEN /\ lastOp' = [op EXCEPT !.result = "400",
                                       !.error = "Username already taken"]
               /\ UNCHANGED <<users, nextUserId, sessions, nextSessionId>>
          ELSE /\ createUser(username, hashPassword(password))
               /\ createSession(nextUserId)
               /\ lastOp' = [op EXCEPT !.user = nextUserId,
                                       !.cookie = Some(nextSessionId)]
       /\ UNCHANGED <<storeVars, tz, now, calcVars, refVars, fk, pc, regs>>

\* POST /api/login
LoginFrom(names, passwords) ==
  \E username \in names, password \in passwords :
    LET op == [NoOp EXCEPT !.op = "login",
                           !.data = Some([username |-> username,
                                          password |-> password])]
        user == getUserByUsername(username)
    IN /\ nextSessionId <= MaxSessions
       /\ IF \/ IsNull(user)
             \/ ~verifyPassword(password, users[user[1]].password_hash)
          THEN /\ lastOp' = [op EXCEPT !.result = "401"]
               /\ UNCHANGED <<sessions, nextSessionId>>
          ELSE /\ createSession(user[1])
               /\ lastOp' = [op EXCEPT !.user = user[1],
                                       !.cookie = Some(nextSessionId)]
       /\ UNCHANGED <<users, nextUserId, regs>>
       /\ UNCHANGED <<storeVars, tz, now, calcVars, refVars, fk, pc>>

\* POST /api/logout
Logout ==
  \E cookie \in Cookies :
    /\ IF IsNull(cookie) THEN UNCHANGED sessions
       ELSE deleteSession(cookie[1])
    /\ lastOp' = [NoOp EXCEPT !.op = "logout", !.cookie = cookie]
    /\ UNCHANGED <<users, nextUserId, nextSessionId, regs>>
    /\ UNCHANGED <<storeVars, tz, now, calcVars, refVars, fk, pc>>

\* GET /api/me: the user the cookie authenticates, 0 for {user: null}
Me ==
  \E cookie \in Cookies :
    /\ lastOp' = [NoOp EXCEPT !.op = "me", !.cookie = cookie,
                              !.user = IF IsNull(getUserIdFromSession(cookie))
                                       THEN 0
                                       ELSE getUserIdFromSession(cookie)[1]]
    /\ UNCHANGED <<storeVars, tz, now, calcVars, extVars>>

\* the clock of the sessions
SessionTick ==
  /\ now < MaxNow
  /\ now' = now + 1
  /\ lastOp' = [NoOp EXCEPT !.op = "tick"]
  /\ UNCHANGED <<tz, storeVars, calcVars, extVars>>

Register == RegisterFrom(SubmittedUsernames, SubmittedPasswords, Cardinality(Users))

Login == LoginFrom(SubmittedUsernames, SubmittedPasswords)

SessionNext == Register \/ Login \/ Logout \/ Me \/ SessionTick

SpecSession == Init /\ [][SessionNext]_vars

----------------------------------------------------------------------------
\* The data routes behind the session cookie.  Every handler starts with
\*   const userId = getUserIdFromSession(c);
\*   if (!userId) return c.json({ error: "Unauthorized" }, 401);
\* and goes on as the user of the session.

\* POST /api/register as the runtime runs it: the handler gives way at
\* "await hashPassword(password)", after usernameExists has answered and
\* before createUser inserts; regs holds the requests waiting there

SignupUsernames == {Ann, <<"a", "n", "n">>, <<"a", "b">>}
SignupPasswords == {Secret, <<"a", "b", "c">>}

\* the handler up to the await
RegisterBegin ==
  \E username \in SignupUsernames, password \in SignupPasswords :
    LET op == [NoOp EXCEPT !.op = "register",
                           !.data = Some([username |-> username,
                                          password |-> password])]
    IN /\ Len(regs) < MaxPending
       /\ IF ~ALLOW_SIGNUPS
          THEN /\ lastOp' = [op EXCEPT !.result = "403"]
               /\ regs' = regs
          ELSE IF validateUsername(username) # "valid"
          THEN /\ lastOp' = [op EXCEPT !.result = "400",
                                       !.error = validateUsername(username)]
               /\ regs' = regs
          ELSE IF validatePassword(password) # "valid"
          THEN /\ lastOp' = [op EXCEPT !.result = "400",
                                       !.error = validatePassword(password)]
               /\ regs' = regs
          ELSE IF usernameExists(username)
          THEN /\ lastOp' = [op EXCEPT !.result = "400",
                                       !.error = "Username already taken"]
               /\ regs' = regs
          ELSE /\ lastOp' = [op EXCEPT !.result = "pending"]
               /\ regs' = Append(regs, [username |-> username,
                                        password |-> password])
       /\ UNCHANGED <<storeVars, tz, now, calcVars, refVars, fk, pc, users,
                      nextUserId, sessions, nextSessionId>>

\* the handler from the await to its response: the INSERT of createUser
\* throws on the UNIQUE constraint when another request has stored the name
\* meanwhile, and the uncaught error is answered with status 500
RegisterFinish ==
  \E i \in DOMAIN regs :
    LET op == [NoOp EXCEPT !.op = "register", !.data = Some(regs[i])]
    IN /\ regs' = SubSeq(regs, 1, i - 1) \o SubSeq(regs, i + 1, Len(regs))
       /\ IF createUserFails(regs[i].username)
          THEN /\ lastOp' = [op EXCEPT !.result = "500"]
               /\ UNCHANGED <<users, nextUserId, sessions, nextSessionId>>
          ELSE /\ nextUserId <= Cardinality(Users)
               /\ nextSessionId <= MaxSessions
               /\ createUser(regs[i].username,
                             hashPassword(regs[i].password))
               /\ createSession(nextUserId)
               /\ lastOp' = [op EXCEPT !.user = nextUserId,
                                       !.cookie = Some(nextSessionId)]
       /\ UNCHANGED <<storeVars, tz, now, calcVars, refVars, fk, pc>>

SignupNext == RegisterBegin \/ RegisterFinish \/ SessionTick

SpecSignup == Init /\ [][SignupNext]_vars

----------------------------------------------------------------------------
\* The data routes behind the session check

\* no cookie, or the cookie of the first session
GateCookies == {Null, Some(1)}

Authorized(opName, Handler) ==
  \E cookie \in GateCookies :
    IF IsNull(getUserIdFromSession(cookie))
    THEN /\ lastOp' = [NoOp EXCEPT !.op = opName, !.result = "401",
                                   !.cookie = cookie]
         /\ UNCHANGED <<storeVars, tz, now, calcVars, extVars>>
    ELSE /\ Handler
         /\ lastOp'.user = getUserIdFromSession(cookie)[1]

\* a daily chore
GateSubmissions ==
  {[name |-> "chore", is_recurring |-> Some(TRUE), interval_days |-> Some(1),
    due_date |-> Null, category_id |-> Null, assigned_member_id |-> Null]}

GateGetTasks == Authorized("getTasksForUser", GetTasks)
GatePostTask ==
  Authorized("createTask", PostTaskFrom(GateSubmissions, TenantTasks))
GatePutTask == Authorized("updateTask", PutTaskFrom(GateSubmissions))
GateDeleteTask == Authorized("deleteTask", DeleteTaskRoute)
GatePostComplete ==
  Authorized("completeTask", PostCompleteFrom({Null}, {Null}, TenantCompletions))
GateGetHistory == Authorized("getHistoryForUser", GetHistory)
GateDeleteHistory == Authorized("deleteHistoryEntry", DeleteHistory)
GateClearHistory == Authorized("clearHistoryForUser", ClearHistory)
GateGetMembers == Authorized("getMembersForUser", GetMembers)
GatePostMember == Authorized("createMember", PostMemberFrom({"ann"}))
GatePutMember == Authorized("updateMember", PutMemberFrom({"ann"}))
GateDeleteMember == Authorized("deleteMember", DeleteMemberRoute)
GateGetCategories == Authorized("getCategoriesForUser", GetCategories)
GatePostCategory ==
  Authorized("createCategory",
             PostCategoryFrom({[name |-> "kitchen", color |-> Null]}))
GatePutCategory ==
  Authorized("updateCategory",
             PutCategoryFrom({[name |-> "kitchen", color |-> Null]}))
GateDeleteCategory == Authorized("deleteCategory", DeleteCategoryRoute)

\* one account and the session its registration opens
GateRegister == RegisterFrom({Ann}, {Secret}, 1)

GateNext ==
  \/ GateGetTasks \/ GatePostTask \/ GatePutTask \/ GateDeleteTask
  \/ GatePostComplete \/ GateGetHistory \/ GateDeleteHistory
  \/ GateClearHistory
  \/ GateGetMembers \/ GatePostMember \/ GatePutMember \/ GateDeleteMember
  \/ GateGetCategories \/ GatePostCategory \/ GatePutCategory
  \/ GateDeleteCategory
  \/ GateRegister \/ Logout \/ SessionTick

SpecGate == Init /\ [][GateNext]_vars

----------------------------------------------------------------------------
\* The two statements of deleteHistoryEntry and of clearHistoryForUser, one at
\* a time.  Each db.run commits on its own (no statement of the code opens a
\* transaction), so a handler that stops between its two statements (the
\* second db.run throws, or the process dies) leaves the first one's effect in
\* the database file.  pc holds the handler that has run its first statement.

Idle == IsNull(pc)

\* a weekly chore, completed "now"
AtomicSubmissions ==
  {[name |-> "chore", is_recurring |-> Some(TRUE), interval_days |-> Some(1),
    due_date |-> Null, category_id |-> Null, assigned_member_id |-> Null]}

AtomicPostTask == Idle /\ PostTaskFrom(AtomicSubmissions, MaxTasks)

AtomicPostComplete == Idle /\ PostCompleteFrom({Null}, {Null}, MaxCompletions)

AtomicTick == Idle /\ Tick

\* db.run("DELETE FROM task_completions WHERE id = ?")
DeleteHistoryFirst ==
  \E u \in Users, id \in 1 .. MaxCompletions :
    LET entry == getHistoryEntry(id, u)
    IN /\ Idle
       /\ ~IsNull(entry)
       /\ completions' = DeleteCompletion(id)
       /\ pc' = Some([op |-> "deleteHistoryEntry", task |-> entry[1],
                      entry |-> id, user |-> u])
       /\ UNCHANGED <<tasks, nextTaskId, nextCompletionId, lastOp>>
       /\ UNCHANGED <<tz, now, calcVars, refVars, fk, authVars>>

\* the SELECT of the previous completion and the UPDATE of the cache
DeleteHistorySecond ==
  /\ ~Idle
  /\ pc[1].op = "deleteHistoryEntry"
  /\ tasks' = SetLastCompleted(pc[1].task,
                 previousCompletion(pc[1].task, completions))
  /\ pc' = Null
  /\ lastOp' = [NoOp EXCEPT !.op = "deleteHistoryEntry", !.task = pc[1].task,
                            !.entry = pc[1].entry]
  /\ UNCHANGED <<completions, nextTaskId, nextCompletionId>>
  /\ UNCHANGED <<tz, now, calcVars, refVars, fk, authVars>>

\* db.run("DELETE FROM task_completions WHERE task_id IN (...)")
ClearHistoryFirst ==
  \E u \in Users :
    /\ Idle
    /\ completions' =
         [c \in {c \in DOMAIN completions :
                   ~(/\ completions[c].task_id \in DOMAIN tasks
                     /\ tasks[completions[c].task_id].user_id = u)}
            |-> completions[c]]
    /\ pc' = Some([op |-> "clearHistoryForUser", task |-> 0, entry |-> 0,
                   user |-> u])
    /\ UNCHANGED <<tasks, nextTaskId, nextCompletionId, lastOp>>
    /\ UNCHANGED <<tz, now, calcVars, refVars, fk, authVars>>

\* db.run("UPDATE tasks SET last_completed_at = NULL WHERE user_id = ?")
ClearHistorySecond ==
  /\ ~Idle
  /\ pc[1].op = "clearHistoryForUser"
  /\ tasks' = [i \in DOMAIN tasks |->
                 IF tasks[i].user_id = pc[1].user
                 THEN [tasks[i] EXCEPT !.last_completed_at = Null]
                 ELSE tasks[i]]
  /\ pc' = Null
  /\ lastOp' = [NoOp EXCEPT !.op = "clearHistoryForUser", !.user = pc[1].user]
  /\ UNCHANGED <<completions, nextTaskId, nextCompletionId>>
  /\ UNCHANGED <<tz, now, calcVars, refVars, fk, authVars>>

\* the handler stops before its second statement; the route answers 500
FailBetween ==
  /\ ~Idle
  /\ pc' = Null
  /\ lastOp' = [NoOp EXCEPT !.op = pc[1].op, !.user = pc[1].user,
                            !.result = "500"]
  /\ UNCHANGED <<storeVars, tz, now, calcVars, refVars, fk, authVars>>

AtomicNext ==
  \/ AtomicPostTask \/ AtomicPostComplete \/ AtomicTick
  \/ DeleteHistoryFirst \/ DeleteHistorySecond
  \/ ClearHistoryFirst \/ ClearHistorySecond
  \/ FailBetween

SpecAtomic == Init /\ [][AtomicNext]_vars

----------------------------------------------------------------------------
\* The complete-task handler among concurrent requests.  The handler checks
\* the task with getTaskById, then awaits c.req.json(), then calls
\* completeTask: at the await the event loop may run the handlers of other
\* requests, none of which awaits between its own store statements.  pc holds
\* the complete request that has passed its check and awaits its body.

\* userId check, getTaskById, 404 or on to the await
CompleteBegin ==
  \E u \in Users, id \in TaskIds :
    /\ Idle
    /\ nextCompletionId <= MaxCompletions
    /\ IF IsNull(getTaskById(id, u))
       THEN /\ lastOp' = [NoOp EXCEPT !.op = "completeTask", !.user = u,
                                      !.id = id, !.result = "404"]
            /\ UNCHANGED pc
       ELSE /\ pc' = Some([op |-> "completeTask", task |-> id, entry |-> 0,
                           user |-> u])
            /\ UNCHANGED lastOp
    /\ UNCHANGED <<storeVars, tz, now, calcVars, refVars, fk, authVars>>

\* the body has arrived: completeTask(id, data); where foreign keys are
\* enforced the INSERT of a completion for a missing task fails
CompleteFinish ==
  /\ ~Idle
  /\ pc[1].op = "completeTask"
  /\ LET id == pc[1].task
         op == [NoOp EXCEPT !.op = "completeTask", !.user = pc[1].user,
                            !.id = id]
         data == [completed_at |-> Null, completed_by_member_id |-> Null]
     IN IF fk /\ id \notin DOMAIN tasks
        THEN /\ UNCHANGED storeVars
             /\ lastOp' = [op EXCEPT !.result = "500"]
        ELSE /\ completeTask(id, data)
             /\ UNCHANGED nextTaskId
             /\ lastOp' = [op EXCEPT !.task = id, !.entry = nextCompletionId]
  /\ pc' = Null
  /\ UNCHANGED <<tz, now, calcVars, refVars, fk, authVars>>

RacePostTask == PostTaskFrom(AtomicSubmissions, MaxTasks)

RaceNext ==
  \/ RacePostTask \/ CompleteBegin \/ CompleteFinish
  \/ DeleteTaskRoute \/ DeleteHistory \/ ClearHistory

SpecRace == Init /\ [][RaceNext]_vars

----------------------------------------------------------------------------
\* The status calculator on its own: any task row and any reference day

CalcTasks ==
  [is_recurring : {0, 1},
   last_completed_at : {Null} \cup {Some(Utc(t)) : t \in Instants},
   interval_days : {Null} \cup {Some(n) : n \in -1 .. MaxInterval},
   due_date : {Null, Some(EmptyStr), Some(InvalidStr)}
                \cup {Some(DateOnly(d)) : d \in Days}
                \cup {Some(LocalStr(w)) : w \in Instants}
                \cup {Some(Utc(t)) : t \in Instants}]

CalcInit ==
  /\ tz \in TZOffsets
  /\ now = (MinDay + 1) * SlotsPerDay
  /\ EmptyStore
  /\ lastOp = NoOp
  /\ calcTask \in {Some(t) : t \in CalcTasks}
  /\ calcToday \in {Some(LocalMidnight(d)) : d \in Days}
  /\ calcResult = Null

Calculate ==
  /\ IsNull(calcResult)
  /\ calcResult' = Some(calculateTaskStatus(calcTask[1], calcToday[1]))
  /\ UNCHANGED <<tz, now, storeVars, lastOp, calcTask, calcToday, extVars>>

CalcNext == Calculate

SpecCalc == CalcInit /\ [][CalcNext]_vars

----------------------------------------------------------------------------
\* One recurring task, completed once, looked at on one day after another:
\* getTasksForUser takes today = normalizeToDay(new Date()) at every call

DayTasks ==
  [is_recurring : {1},
   last_completed_at : {Some(Utc(t)) : t \in Instants},
   interval_days : {Some(n) : n \in 1 .. MaxInterval},
   due_date : {Null}]

DaysInit ==
  /\ tz \in TZOffsets
  /\ now = MinDay * SlotsPerDay + 1
  /\ EmptyStore
  /\ lastOp = NoOp
  /\ calcTask \in {Some(t) : t \in DayTasks}
  /\ calcToday = Some(getToday)
  /\ calcResult = Some(calculateTaskStatus(calcTask[1], getToday))

\* a day passes and the status is computed again
NextDay ==
  /\ now + SlotsPerDay <= (MaxDay + 2) * SlotsPerDay
  /\ now' = now + SlotsPerDay
  /\ calcToday' = Some(normalizeToDay(MkDate(now + SlotsPerDay)))
  /\ calcResult' = Some(calculateTaskStatus(calcTask[1],
                           normalizeToDay(MkDate(now + SlotsPerDay))))
  /\ UNCHANGED <<tz, storeVars, lastOp, calcTask, extVars>>

DaysNext == NextDay

SpecDays == DaysInit /\ [][DaysNext]_vars

----------------------------------------------------------------------------
\* Properties of the status calculator (checked under SpecCalc)

Calculated == ~IsNull(calcResult)
CalcIn == calcTask[1]
CalcOut == calcResult[1]
TodayDay == LocalDay(calcToday[1])
TimeOfDay(d) == (d.t + tz) % SlotsPerDay

\* C2: a recurring task that has a last completion is done while the day of
\* last_completed_at + interval_days is after today, pending on exactly that
\* day and overdue after it.
C2_ThreeWayStatus ==
  (Calculated /\ CalcIn.is_recurring = 1 /\ ~IsNull(CalcIn.last_completed_at)) =>
    LET dueDay == LocalDay(NewDate(CalcIn.last_completed_at[1])) + IntervalOf(CalcIn)
    IN /\ (dueDay > TodayDay) => (CalcOut.status = "done")
       /\ (dueDay = TodayDay) => (CalcOut.status = "pending")
       /\ (dueDay < TodayDay) => (CalcOut.status = "overdue")

\* the boundary day, reached by a completion that was not made at midnight
C2_Witness ==
  /\ Calculated
  /\ CalcIn.is_recurring = 1
  /\ ~IsNull(CalcIn.last_completed_at)
  /\ TimeOfDay(NewDate(CalcIn.last_completed_at[1])) # 0
  /\ IntervalOf(CalcIn) > 0
  /\ LocalDay(NewDate(CalcIn.last_completed_at[1])) + IntervalOf(CalcIn) = TodayDay
  /\ CalcOut.status = "pending"

\* C3: a recurring task that was never completed is overdue and due today,
\* whatever its interval_days and due_date.
C3_NeverCompletedOverdue ==
  (Calculated /\ CalcIn.is_recurring = 1 /\ IsNull(CalcIn.last_completed_at)) =>
    /\ CalcOut.status = "overdue"
    /\ CalcOut.nextDue = calcToday[1]

C3_Witness ==
  /\ Calculated
  /\ CalcIn.is_recurring = 1
  /\ IsNull(CalcIn.last_completed_at)
  /\ ~IsNull(CalcIn.interval_days)
  /\ ~IsNull(CalcIn.due_date)
  /\ CalcOut.status = "overdue"

C5_NonRecurringDueDate ==
  (Calculated /\ CalcIn.is_recurring = 0) =>
    /\ CalcOut.status # "done"
    /\ (~IsNull(CalcIn.due_date) /\ NewDate(CalcIn.due_date[1]).valid) =>
         LET dueDay == LocalDay(NewDate(CalcIn.due_date[1]))
         IN /\ (dueDay >= TodayDay) =>
                 /\ CalcOut.status = "pending"
                 /\ CalcOut.nextDue = LocalMidnight(dueDay)
            /\ (dueDay < TodayDay) => (CalcOut.status = "overdue")

\* due today, with a completion on record
C5_Witness ==
  /\ Calculated
  /\ CalcIn.is_recurring = 0
  /\ ~IsNull(CalcIn.due_date)
  /\ NewDate(CalcIn.due_date[1]).valid
  /\ TimeOfDay(NewDate(CalcIn.due_date[1])) # 0
  /\ LocalDay(NewDate(CalcIn.due_date[1])) = TodayDay
  /\ ~IsNull(CalcIn.last_completed_at)
  /\ CalcOut.status = "pending"

\* C6: a non-recurring task without a due date is pending and due today on
\* every reference day.
C6_NoDueDatePending ==
  (Calculated /\ CalcIn.is_recurring = 0 /\ IsNull(CalcIn.due_date)) =>
    /\ CalcOut.status = "pending"
    /\ CalcOut.nextDue = calcToday[1]

C6_Witness ==
  /\ Calculated
  /\ CalcIn.is_recurring = 0
  /\ IsNull(CalcIn.due_date)
  /\ TodayDay = MaxDay
  /\ ~IsNull(CalcIn.last_completed_at)
  /\ CalcOut.status = "pending"

----------------------------------------------------------------------------
\* Properties of the completion audit trail (checked under Spec)

\* the completion records of a task
RecordsOf(taskId, comps) == {c \in DOMAIN comps : comps[c].task_id = taskId}

\* the latest completed_at among a task's records, NULL when it has none
LatestOf(taskId, comps) ==
  IF RecordsOf(taskId, comps) = {} THEN Null
  ELSE LET c == CHOOSE c \in RecordsOf(taskId, comps) :
                  \A d \in RecordsOf(taskId, comps) :
                    NewDate(comps[d].completed_at).t <= NewDate(comps[c].completed_at).t
       IN Some(comps[c].completed_at)

Served(op) == lastOp.op = op /\ lastOp.result = "ok"

\* C1: every task's last_completed_at is the latest completed_at among its
\* surviving completion records, or NULL when it has none.
C1_CacheIsLatestCompletion ==
  \A i \in DOMAIN tasks : tasks[i].last_completed_at = LatestOf(i, completions)

\* C7 as stated: right after completeTask, with today unchanged, a recurring
\* task with interval_days > 0 is done.
C7_CompleteThenDone ==
  (Served("completeTask") /\ tasks[lastOp.task].is_recurring = 1
     /\ IntervalOf(tasks[lastOp.task]) > 0) =>
    calculateTaskStatus(tasks[lastOp.task], getToday).status = "done"

\* C7 amended: right after completeTask, with today unchanged, a recurring task
\* with interval_days > 0 is done when the completion carried no completed_at
\* (the current time was recorded) or a completed_at whose day is later than
\* today - interval_days.
C7_CompleteNowThenDone ==
  (Served("completeTask") /\ tasks[lastOp.task].is_recurring = 1
     /\ IntervalOf(tasks[lastOp.task]) > 0
     /\ (IsNull(lastOp.at)
           \/ LocalDay(NewDate(lastOp.at[1])) + IntervalOf(tasks[lastOp.task])
                > LocalDay(MkDate(now)))) =>
    calculateTaskStatus(tasks[lastOp.task], getToday).status = "done"

\* a task that was overdue by an older completion is completed now
C7_Witness ==
  /\ Served("completeTask")
  /\ tasks[lastOp.task].is_recurring = 1
  /\ IntervalOf(tasks[lastOp.task]) > 0
  /\ IsNull(lastOp.at)
  /\ Cardinality(RecordsOf(lastOp.task, completions)) >= 2
  /\ calculateTaskStatus(tasks[lastOp.task], getToday).status = "done"

\* C8: completeTask inserts exactly one completion record for the task, stamped
\* with the supplied completed_at if one was given and with the current time
\* otherwise, and sets the task's last_completed_at to the same timestamp.
C8_CompleteTaskRecords ==
  [][(lastOp'.op = "completeTask" /\ lastOp'.result = "ok") =>
       LET e == lastOp'.entry
           t == lastOp'.task
           stamp == IF IsNull(lastOp'.at) THEN MkDate(now)
                    ELSE NewDate(lastOp'.at[1])
       IN /\ e \notin DOMAIN completions
          /\ DOMAIN completions' = DOMAIN completions \cup {e}
          /\ \A c \in DOMAIN completions : completions'[c] = completions[c]
          /\ completions'[e].task_id = t
          /\ NewDate(completions'[e].completed_at) = stamp
          /\ tasks'[t].last_completed_at = Some(completions'[e].completed_at)
          /\ \A i \in DOMAIN tasks \ {t} : tasks'[i] = tasks[i]]_vars

\* a completion supplied in local time is recorded next to an earlier record
C8_Witness ==
  /\ Served("completeTask")
  /\ ~IsNull(lastOp.at)
  /\ lastOp.at[1].kind = "local"
  /\ Cardinality(DOMAIN completions) >= 2
  /\ completions[lastOp.entry].completed_at = Utc(lastOp.at[1].v - tz)
  /\ tasks[lastOp.task].last_completed_at = Some(completions[lastOp.entry].completed_at)

C10_DeleteOnlyCompletion ==
  [][(lastOp'.op = "deleteHistoryEntry" /\ lastOp'.result = "ok"
        /\ tasks[lastOp'.task].is_recurring = 1
        /\ RecordsOf(lastOp'.task, completions) = {lastOp'.entry}) =>
       /\ IsNull(tasks'[lastOp'.task].last_completed_at)
       /\ \A d \in Days :
            calculateTaskStatus(tasks'[lastOp'.task], LocalMidnight(d)).status
              = "overdue"]_vars

\* the only record of a recurring task was deleted while another task keeps its
\* history
C10_Witness ==
  /\ Served("deleteHistoryEntry")
  /\ tasks[lastOp.task].is_recurring = 1
  /\ RecordsOf(lastOp.task, completions) = {}
  /\ completions # <<>>
  /\ IsNull(tasks[lastOp.task].last_completed_at)
  /\ calculateTaskStatus(tasks[lastOp.task], getToday).status = "overdue"

\* C11: after clearHistoryForUser(owner) none of the owner's tasks has a
\* completion record and each has last_completed_at NULL.
C11_ClearHistoryClears ==
  Served("clearHistoryForUser") =>
    \A i \in DOMAIN tasks :
      (tasks[i].user_id = lastOp.user) =>
        /\ IsNull(tasks[i].last_completed_at)
        /\ RecordsOf(i, completions) = {}

\* all the records the run may insert were made, the owner's are gone and
\* another owner's record is still there
C11_Witness ==
  /\ Served("clearHistoryForUser")
  /\ nextCompletionId = MaxCompletions + 1
  /\ \E i \in DOMAIN tasks : tasks[i].user_id = lastOp.user
  /\ \E c \in DOMAIN completions :
       tasks[completions[c].task_id].user_id # lastOp.user

----------------------------------------------------------------------------
\* Properties of the two-statement handlers (checked under SpecAtomic)

\* C12: a deleteHistoryEntry or clearHistoryForUser that fails after its
\* first statement and before its second does not leave a task whose
\* last_completed_at is the timestamp of a completion that no longer exists.
C12_NoDanglingCache ==
  (Idle /\ lastOp.result = "500") =>
    \A i \in DOMAIN tasks :
      ~IsNull(tasks[i].last_completed_at) =>
        \E c \in DOMAIN completions :
          /\ completions[c].task_id = i
          /\ completions[c].completed_at = tasks[i].last_completed_at[1]

----------------------------------------------------------------------------
\* Properties of validation and of the validated routes (checked under
\* SpecSubmit)

Submitted(st) == st.op \in {"createTask", "updateTask"}

\* C15: validateTaskData answers valid exactly when the name is non-empty and
\* either is_recurring is false or interval_days is present and positive.
C15_ValidIffWellFormed ==
  Submitted(lastOp) =>
    LET d == lastOp.data[1]
    IN (validateTaskData(d) = "valid") <=>
         /\ d.name # ""
         /\ \/ d.is_recurring = Some(FALSE)
            \/ (~IsNull(d.interval_days) /\ d.interval_days[1] > 0)

\* C16: every task the validated routes stored as recurring has an
\* interval_days that is not NULL.
C16_RecurringHasInterval ==
  \A i \in DOMAIN tasks :
    (tasks[i].is_recurring = 1) => ~IsNull(tasks[i].interval_days)

\* C17: a create or update submission with a missing name, or recurring
\* without an interval, is answered with a rejection and its reason, and
\* leaves the store as it was.
C17_RejectionWritesNothing ==
  [][(/\ Submitted(lastOp')
      /\ \/ lastOp'.data[1].name = ""
         \/ /\ lastOp'.data[1].is_recurring = Some(TRUE)
            /\ IsNull(lastOp'.data[1].interval_days))
     => /\ lastOp'.result = "400"
        /\ lastOp'.error \in {"Name is required",
                              "Interval is required for recurring tasks"}
        /\ UNCHANGED storeVars]_vars

\* an update of an existing task was rejected for its missing interval
C17_Witness ==
  /\ lastOp.op = "updateTask"
  /\ lastOp.result = "400"
  /\ lastOp.error = "Interval is required for recurring tasks"
  /\ lastOp.data[1].name # ""
  /\ tasks # <<>>

----------------------------------------------------------------------------
\* Properties of the task listing (checked under SpecList)

CompletedOneTime(t) == t.is_recurring = 0 /\ ~IsNull(t.last_completed_at)

\* C13: getTasksForUser(owner) returns exactly the owner's tasks that are
\* recurring or never completed, each with the status and next-due that
\* calculateTaskStatus computes for it.
C13_ListingIsActiveTasks ==
  (lastOp.op = "getTasksForUser") =>
    /\ lastOp.result = "ok"
    /\ {r.id : r \in lastOp.rows} =
         {i \in DOMAIN tasks :
            /\ tasks[i].user_id = lastOp.user
            /\ ~CompletedOneTime(tasks[i])}
    /\ \A r \in lastOp.rows :
         /\ r.status = calculateTaskStatus(tasks[r.id], getToday).status
         /\ r.next_due =
              toISOString(calculateTaskStatus(tasks[r.id], getToday).nextDue)

\* C14: once a one-time task has been completed, no later operation makes
\* getTasksForUser select it again.
C14_NeverListedAgain ==
  [][\A i \in DOMAIN tasks :
       CompletedOneTime(tasks[i]) =>
         i \notin ActiveIds(tasks', tasks[i].user_id)]_vars

\* C14 (amended): no listing that getTasksForUser returns holds a
\* non-recurring task whose last_completed_at is not NULL.
C14_CompletedOneTimeNotListed ==
  (lastOp.op = "getTasksForUser" /\ lastOp.result = "ok") =>
    \A r \in lastOp.rows : ~CompletedOneTime(tasks[r.id])

\* the owner's listing was returned, one of the owner's one-time tasks is
\* completed and left out, another task is in it
C14_Witness ==
  /\ lastOp.op = "getTasksForUser"
  /\ lastOp.result = "ok"
  /\ lastOp.rows # {}
  /\ \E i \in DOMAIN tasks :
       /\ tasks[i].user_id = lastOp.user
       /\ CompletedOneTime(tasks[i])
       /\ \A r \in lastOp.rows : r.id # i

----------------------------------------------------------------------------
\* Properties of ownership (checked under SpecTenant)

SingleEntityOps ==
  {"updateTask", "deleteTask", "completeTask", "deleteHistoryEntry",
   "updateCategory", "deleteCategory", "updateMember", "deleteMember"}

\* the entity a single-entity request names exists and is the caller's
OwnsTarget(op, id, u) ==
  CASE op \in {"updateTask", "deleteTask", "completeTask"} ->
         id \in DOMAIN tasks /\ tasks[id].user_id = u
    [] op = "deleteHistoryEntry" ->
         /\ id \in DOMAIN completions
         /\ completions[id].task_id \in DOMAIN tasks
         /\ tasks[completions[id].task_id].user_id = u
    [] op \in {"updateCategory", "deleteCategory"} ->
         id \in DOMAIN categories /\ categories[id].user_id = u
    [] op \in {"updateMember", "deleteMember"} ->
         id \in DOMAIN members /\ members[id].user_id = u
    [] OTHER -> TRUE

\* C18: a single-entity route answers not-found when the entity it names is
\* not the caller's, as it does when the entity does not exist.
C18_ForeignTargetNotFound ==
  [][(/\ lastOp'.op \in SingleEntityOps
      /\ lastOp'.result # "400"
      /\ ~OwnsTarget(lastOp'.op, lastOp'.id, lastOp'.user))
     => lastOp'.result = "404"]_vars

OwnerWrites ==
  {"deleteTask", "updateTask", "updateCategory", "deleteCategory",
   "updateMember", "deleteMember", "clearHistoryForUser"}

C20_ReadsOnlyOwnRows ==
  /\ (lastOp.op = "getTasksForUser") =>
       \A r \in lastOp.rows :
         /\ r.task.user_id = lastOp.user
         /\ ~IsNull(r.category_name) =>
              categories[r.task.category_id[1]].user_id = lastOp.user
         /\ ~IsNull(r.assigned_member_name) =>
              members[r.task.assigned_member_id[1]].user_id = lastOp.user
  /\ (lastOp.op = "getHistoryForUser") =>
       \A r \in lastOp.rows :
         /\ tasks[r.task_id].user_id = lastOp.user
         /\ ~IsNull(r.completed_by_name) =>
              members[r.completed_by_member_id[1]].user_id = lastOp.user
  /\ (lastOp.op = "getCategoriesForUser") =>
       \A r \in lastOp.rows : categories[r.id].user_id = lastOp.user
  /\ (lastOp.op = "getMembersForUser") =>
       \A r \in lastOp.rows : members[r.id].user_id = lastOp.user

----------------------------------------------------------------------------
\* More properties of the task listing (checked under SpecList)

\* C28: in every state the validated submissions can reach, getTasksForUser
\* completes for every owner: no accepted due_date or interval makes
\* nextDue.toISOString() throw.
C28_ListingNeverFails ==
  \A u \in Users : ~getTasksForUserThrows(u)

\* C26: updateTask leaves the last_completed_at of every task, every task
\* other than its target and every completion record as they were, and the
\* row it wrote has a NULL due_date when recurring and a NULL interval_days
\* when not.
C26_UpdateTaskFrame ==
  [][(lastOp'.op = "updateTask" /\ lastOp'.result = "ok") =>
       /\ completions' = completions
       /\ DOMAIN tasks' = DOMAIN tasks
       /\ \A i \in DOMAIN tasks :
            /\ tasks'[i].last_completed_at = tasks[i].last_completed_at
            /\ tasks'[i].user_id = tasks[i].user_id
            /\ (i # lastOp'.id) => (tasks'[i] = tasks[i])
            /\ (i = lastOp'.id) =>
                 /\ (tasks'[i].is_recurring = 1) => IsNull(tasks'[i].due_date)
                 /\ (tasks'[i].is_recurring = 0) => IsNull(tasks'[i].interval_days)]_vars

\* the caller's completed task was updated by a body that carried both an
\* interval and a due date
C26_Witness ==
  /\ Served("updateTask")
  /\ lastOp.id \in DOMAIN tasks
  /\ tasks[lastOp.id].user_id = lastOp.user
  /\ ~IsNull(tasks[lastOp.id].last_completed_at)
  /\ RecordsOf(lastOp.id, completions) # {}
  /\ ~IsNull(lastOp.data[1].interval_days)
  /\ ~IsNull(lastOp.data[1].due_date)
  /\ tasks[lastOp.id].is_recurring = 0

----------------------------------------------------------------------------
\* Properties of concurrent requests (checked under SpecRace)

\* C21: a complete-task request is one isolated unit: when it writes, the
\* task that its getTaskById check found still exists and is the caller's.
C21_CompleteIsIsolated ==
  [][(~Idle /\ pc[1].op = "completeTask" /\ pc' = Null) =>
       /\ pc[1].task \in DOMAIN tasks
       /\ tasks[pc[1].task].user_id = pc[1].user]_vars

\* C27: every completion record refers to a task that exists.
C27_NoOrphanCompletion ==
  \A c \in DOMAIN completions : completions[c].task_id \in DOMAIN tasks

----------------------------------------------------------------------------
\* The status over the days (checked under SpecDays)

StatusRank(st) ==
  CASE st = "done" -> 0 [] st = "pending" -> 1 [] OTHER -> 2

DueDayOf(task) ==
  LocalDay(NewDate(task.last_completed_at[1])) + IntervalOf(task)

\* C22: with last_completed_at and a positive interval fixed, from one day to
\* the next the status is done before the next-due day, pending on it and
\* overdue after it, and never moves back towards done.
C22_StatusOnlyAdvances ==
  [][/\ StatusRank(calcResult'[1].status) >= StatusRank(calcResult[1].status)
     /\ LET today == LocalDay(calcToday'[1])
        IN calcResult'[1].status =
             IF today < DueDayOf(calcTask[1]) THEN "done"
             ELSE IF today = DueDayOf(calcTask[1]) THEN "pending"
             ELSE "overdue"]_vars

\* the task was done on the first day, pending on its next-due day, and is
\* overdue on the day after
C22_Witness ==
  /\ calcResult[1].status = "overdue"
  /\ DueDayOf(calcTask[1]) > LocalDay(MkDate(MinDay * SlotsPerDay + 1))
  /\ LocalDay(calcToday[1]) = DueDayOf(calcTask[1]) + 1

----------------------------------------------------------------------------
\* Properties of the sessions (checked under SpecSession)

\* C23: a session id authenticates as its user exactly while its row exists
\* and its expires_at is not before the current time, and as nobody
\* otherwise; a session id that was issued and is no longer stored is never
\* stored again.
C23_SessionAuthenticates ==
  [][/\ (lastOp'.op = "me" /\ ~IsNull(lastOp'.cookie)) =>
          LET sid == lastOp'.cookie[1]
          IN IF /\ sid \in DOMAIN sessions
                /\ sessions[sid].expires_at.v >= now
             THEN lastOp'.user = sessions[sid].user_id
             ELSE lastOp'.user = 0
     /\ \A sid \in 1 .. (nextSessionId - 1) :
          (sid \notin DOMAIN sessions) => (sid \notin DOMAIN sessions')]_vars

\* a session that was logged out is presented while another session of the
\* same run is still stored, and authenticates nobody
C23_Witness ==
  /\ lastOp.op = "me"
  /\ ~IsNull(lastOp.cookie)
  /\ lastOp.cookie[1] < nextSessionId
  /\ lastOp.cookie[1] \notin DOMAIN sessions
  /\ lastOp.user = 0
  /\ sessions # <<>>

----------------------------------------------------------------------------
\* Properties of the data routes behind the session (checked under SpecGate)

DataOps ==
  {"getTasksForUser", "createTask", "updateTask", "deleteTask",
   "completeTask", "getHistoryForUser", "deleteHistoryEntry",
   "clearHistoryForUser", "getMembersForUser", "createMember",
   "updateMember", "deleteMember", "getCategoriesForUser", "createCategory",
   "updateCategory", "deleteCategory"}

\* the user holds a session that is stored and has not expired
HasValidSession(u) ==
  \E sid \in DOMAIN sessions :
    /\ sessions[sid].user_id = u
    /\ sessions[sid].expires_at.v >= now

\* C24: a data route acts only for a user who holds a valid unexpired
\* session; any other request to it is answered Unauthorized, returns no rows
\* and leaves the store as it was.
C24_NoSessionNoAccess ==
  [][(lastOp'.op \in DataOps /\ ~HasValidSession(lastOp'.user)) =>
       /\ lastOp'.result = "401"
       /\ lastOp'.rows = {}
       /\ UNCHANGED <<storeVars, refVars>>]_vars

\* a request carried the cookie of a session that has expired, while the
\* user has a task to read, and was answered Unauthorized
C24_Witness ==
  /\ lastOp.op = "getTasksForUser"
  /\ lastOp.result = "401"
  /\ ~IsNull(lastOp.cookie)
  /\ lastOp.cookie[1] \in DOMAIN sessions
  /\ sessions[lastOp.cookie[1]].expires_at.v < now
  /\ tasks # <<>>

----------------------------------------------------------------------------
\* The frontend's preview against the listing (checked under SpecList)

\* C29: for every task of a listing the frontend's preview status for day 0,
\* derived from next_due, is the status the server computed.
C29_PreviewMatchesServer ==
  (lastOp.op = "getTasksForUser" /\ lastOp.result = "ok") =>
    \A row \in lastOp.rows : getStatusForDay(row, 0) = row.status

----------------------------------------------------------------------------
\* Properties of the history listing (checked under SpecHistory)

\* the instant a history row's completed_at names
CompletedInstant(row) == NewDate(row.completed_at).t

\* C25: the history of an owner holds only completions of the owner's tasks,
\* lists a later completion before an earlier one, never holds more entries
\* than the limit, and when more completions exist than the limit it holds
\* the most recent of them.
C25_HistoryRecentFirstLimited ==
  lastOp.op = "getHistoryForUser" =>
    LET h == lastOp.list
        listed == {h[i].id : i \in DOMAIN h}
    IN /\ listed \subseteq HistoryIds(lastOp.user)
       /\ \A i, j \in DOMAIN h :
            i < j => CompletedInstant(h[i]) >= CompletedInstant(h[j])
       /\ Len(h) <= HistoryLimit
       /\ Cardinality(HistoryIds(lastOp.user)) > HistoryLimit =>
            /\ Len(h) = HistoryLimit
            /\ \A c \in HistoryIds(lastOp.user) \ listed :
                 \A i \in DOMAIN h :
                   CompletedInstant(h[i]) >= CompletedInstant(HistoryRow(c))

----------------------------------------------------------------------------
\* Properties of concurrent registrations (checked under SpecSignup)

\* no two users have the same lower-cased username
UniqueLowerNames ==
  \A u, v \in DOMAIN users :
    toLowerCase(users[u].username) = toLowerCase(users[v].username) => u = v

\* C30: no two users ever have the same lower-cased username, and a
\* registration that passed validation and answers while its username is
\* stored (the other request of a race has created it) is rejected with
\* 'Username already taken' and creates neither a user nor a session.
C30_OneRegistrationWins ==
  [][/\ UniqueLowerNames'
     /\ (/\ lastOp'.op = "register"
         /\ lastOp'.result \notin {"pending", "403"}
         /\ validateUsername(lastOp'.data[1].username) = "valid"
         /\ validatePassword(lastOp'.data[1].password) = "valid"
         /\ usernameExists(lastOp'.data[1].username)) =>
          /\ lastOp'.result = "400"
          /\ lastOp'.error = "Username already taken"
          /\ users' = users
          /\ sessions' = sessions]_vars

====
